---- MODULE Spec2Model ----
(***************************************************************************)
(* A model of cgir, the Raspberry Pi infrared library: the codec           *)
(* (encode / decode of the packaged module cgir/infrared.py and of the     *)
(* standalone script cgir.py) and the capture state machine (record and    *)
(* its edge / watchdog callback).                                          *)
(*                                                                         *)
(* Python lists are sequences; a Python index i is position i + 1.         *)
(***************************************************************************)
EXTENDS Integers, Sequences, FiniteSets, TLC

\* ------------------------------------------------------------ constants

FORMAT_UNKNOWN == "Unknown"
FORMAT_AEHA == "AEHA"
FORMAT_NEC == "NEC"
FORMAT_SONY == "SONY"

REC_SUCCESS == 0
REC_NO_DATA == 1
REC_SHORT == 2
REC_ERR_PIGPIO == 3

_T_MAX_GAP == 60000
_T_AEHA == 425
_T_NEC == 560
_T_SONY == 600
_T_WAIT == 10000

\* tol = 0.35 of _cl, in percent
TOL_PCT == 35
\* the frame periods of the wait formulas of encode
NEC_PERIOD == 108000
SONY_PERIOD == 45000
\* record: a code of more than MIN_CODE entries is a success
MIN_CODE == 10
\* decode: a code of fewer than MIN_DECODE entries is rejected
MIN_DECODE == 10
\* pigpio ticks are 32 bit: a tick is [hi, lo], two words of 16 bits
TICK_WORD == 65536
\* set_watchdog(gpio_rec, 100): the watchdog period in ms and in us
WATCHDOG_MS == 100
WATCHDOG_US == 100000
\* cgir.py: the polling loop gives up at i >= 100
SCRIPT_POLLS == 100
\* pigpio.TIMEOUT, the level of a watchdog event
TIMEOUT_LEVEL == 2
\* the polling loop runs 10 times per second of timeout
POLLS_PER_S == 10

\* ------------------------------------------------------------ bounds

\* frames per encode input
MaxFrames == 2
\* bytes per AEHA/NEC frame drawn freely from ByteVals
MaxBytes == 2
\* length of the one long frame of 0xFF bytes
LongLen == 5
\* only codes of at most this length are perturbed before decode
MaxMutLen == 41
\* how many trailing elements may be cut from a code
MaxTrunc == 2
\* the timeout argument of record, in seconds
MaxTimeout == 1
\* gaps of the steady signals (one more edge than gaps)
MaxGaps == 11
\* steady gaps before the one free gap of a signal
MaxLead == 2

ByteVals == {18, 52}
LowVals == {21, 127}
HighVals == {0, 31, 32, 255, 256, 8191}
\* durations written over one element of a code
DurVals == {0, 600, 2240, 3400, 10000}
\* the steady gap between two edges, and the gaps tried for the free one [us]
SteadyGap == 560
GapVals == {994, 1025, 1980, 2090, 60000, 60001, 150000}

\* the largest length given to _cl (above 135 % of the largest target)
MaxLength == 12100
\* the largest n given to _round
MaxN == 3000
\* the largest Space given to the leader tests (above 135 % of the largest)
MaxSpace == 6100

\* members of a file's text
MaxEntries == 2
\* calls of record on one object
MaxCalls == 2
\* edges of the signals the script's record is given
MaxScriptEdges == 3
\* polls of record counted while the timeout is far off
MaxPolls == 2

\* ------------------------------------------------------------ timing utilities

\* _round with an exact tie going down
_roundTiesDown(n, m) == ((n + ((m - 1) \div 2)) \div m) * m

\* (n + m // 2) // m * m
_round(n, m) == ((n + (m \div 2)) \div m) * m

\* _cl with the two limits included
_clInclusive(length, target) ==
  /\ length * 100 >= target * (100 - TOL_PCT)
  /\ length * 100 =< target * (100 + TOL_PCT)

\* length > target * (1 - tol) and length < target * (1 + tol), tol = 0.35;
\* scaled by 100 (the float products agree with the exact ones on integers)
_cl(length, target) ==
  /\ length * 100 > target * (100 - TOL_PCT)
  /\ length * 100 < target * (100 + TOL_PCT)

RECURSIVE Pow2(_)
Pow2(n) == IF n <= 0 THEN 1 ELSE 2 * Pow2(n - 1)

\* (d >> k) & 1, d >= 0
Bit(d, k) == (d \div Pow2(k)) % 2

At(code, i) == code[i + 1]

Supported == {FORMAT_AEHA, FORMAT_NEC, FORMAT_SONY}

BaseT(ir_format) ==
  IF ir_format = FORMAT_AEHA THEN _T_AEHA
  ELSE IF ir_format = FORMAT_NEC THEN _T_NEC
  ELSE _T_SONY

\* ------------------------------------------------------------ encode

\* an outcome of encode: the code returned, or an exception raised
Returned(code) == [raised |-> FALSE, code |-> code]
Raised == [raised |-> TRUE, code |-> <<>>]

\* Wait with half of _T_WAIT for AEHA
WaitHalved(ir_format, t, t_count) ==
  IF ir_format = FORMAT_AEHA THEN _T_WAIT \div 2
  ELSE IF ir_format = FORMAT_NEC THEN _round(NEC_PERIOD - t * t_count, 100)
  ELSE _round(SONY_PERIOD - t * t_count, 100)

\* Wait: the Space appended before every frame but the first
Wait(ir_format, t, t_count) ==
  IF ir_format = FORMAT_AEHA THEN _T_WAIT
  ELSE IF ir_format = FORMAT_NEC THEN _round(NEC_PERIOD - t * t_count, 100)
  ELSE _round(SONY_PERIOD - t * t_count, 100)

Leader(ir_format, t) ==
  IF ir_format = FORMAT_AEHA THEN <<t * 8, t * 4>>
  ELSE IF ir_format = FORMAT_NEC THEN <<t * 16, t * 8>>
  ELSE <<t * 4>>

LeaderCount(ir_format) ==
  IF ir_format = FORMAT_AEHA THEN 12
  ELSE IF ir_format = FORMAT_NEC THEN 24
  ELSE 4

\* bits = 20 / 15 / 12 by the size of frame[1]
SonyBits(high) ==
  IF high >= 256 THEN 20
  ELSE IF high >= 32 THEN 15
  ELSE 12

\* the data bits of a frame in the order they are sent: every byte LSB first
\* (AEHA, NEC), or the low bits of frame[0] + (frame[1] << 7) (SONY)
FrameBits(ir_format, frame) ==
  IF ir_format = FORMAT_SONY
  THEN LET d == frame[1] + frame[2] * 128
       IN  [k \in 1..SonyBits(frame[2]) |-> Bit(d, k - 1)]
  ELSE [k \in 1..(8 * Len(frame)) |-> Bit(frame[((k - 1) \div 8) + 1], (k - 1) % 8)]

\* BitSpace with the Spaces of bit 1 exchanged between the formats
BitSpaceExchanged(ir_format, t, bit) ==
  IF bit = 0 THEN t
  ELSE IF ir_format = FORMAT_SONY THEN t * 3
  ELSE t * 2

\* the Space of one data bit
BitSpace(ir_format, t, bit) ==
  IF bit = 0 THEN t
  ELSE IF ir_format = FORMAT_SONY THEN t * 2
  ELSE t * 3

\* what one data bit adds to t_count
BitCount(ir_format, bit) ==
  IF bit = 0 THEN 2
  ELSE IF ir_format = FORMAT_SONY THEN 3
  ELSE 4

\* Data: a Mark of t and the bit's Space, for every bit
DataCode(ir_format, t, bits) ==
  [j \in 1..(2 * Len(bits)) |->
     IF j % 2 = 1 THEN t ELSE BitSpace(ir_format, t, bits[j \div 2])]

RECURSIVE DataCount(_, _, _)
DataCount(ir_format, bits, k) ==
  IF k > Len(bits) THEN 0
  ELSE BitCount(ir_format, bits[k]) + DataCount(ir_format, bits, k + 1)

\* StopCode without a stop bit in any format
StopCodeNone(ir_format, t) == <<>>
\* Stop bit: AEHA and NEC only; it adds nothing to t_count
StopCode(ir_format, t) ==
  IF ir_format = FORMAT_SONY THEN <<>> ELSE <<t>>

\* t_count at the end of a frame's iteration
FrameCount(ir_format, frame) ==
  LeaderCount(ir_format) + DataCount(ir_format, FrameBits(ir_format, frame), 1)

\* Leader, Data and Stop bit of one frame
FrameCode(ir_format, frame) ==
  LET t == BaseT(ir_format)
  IN  Leader(ir_format, t)
        \o DataCode(ir_format, t, FrameBits(ir_format, frame))
        \o StopCode(ir_format, t)

\* the loop over frames, from frame k on. check_len is the test of the
\* standalone script (len(frame) == 0 returns []), absent from the package.
\* A SONY frame shorter than two elements raises IndexError at frame[0] or
\* frame[1].
RECURSIVE EncodeFrames(_, _, _, _, _, _)
EncodeFrames(check_len, ir_format, frames, k, code, t_count) ==
  IF k > Len(frames) THEN Returned(code)
  ELSE IF check_len /\ Len(frames[k]) = 0 THEN Returned(<<>>)
  ELSE IF ir_format = FORMAT_SONY /\ Len(frames[k]) < 2 THEN Raised
  ELSE LET t == BaseT(ir_format)
           wait == IF k = 1 THEN <<>> ELSE <<Wait(ir_format, t, t_count)>>
       IN  EncodeFrames(check_len, ir_format, frames, k + 1,
                        code \o wait \o FrameCode(ir_format, frames[k]),
                        FrameCount(ir_format, frames[k]))

\* encode without the else branch of the format test
encodeAnyFormat(ir_format, frames) ==
  EncodeFrames(FALSE, ir_format, frames, 1, <<>>, 0)

\* Infrared.encode of cgir/infrared.py: an unknown format raises ValueError
encode(ir_format, frames) ==
  IF ir_format \notin Supported THEN Raised
  ELSE EncodeFrames(FALSE, ir_format, frames, 1, <<>>, 0)

\* Infrared.encode of cgir.py: an unknown format returns []
cgir_encode(ir_format, frames) ==
  IF ir_format \notin Supported THEN Returned(<<>>)
  ELSE EncodeFrames(TRUE, ir_format, frames, 1, <<>>, 0)

\* ------------------------------------------------------------ decode

\* How a call of decode ends: kind "pair" is a returned (ir_format, frames),
\* "none" is the function body ending without a return statement, "raise" is
\* an IndexError. bit_counter is the local variable's value at that point.
Ended(kind, ir_format, frames, bit_counter) ==
  [kind |-> kind, ir_format |-> ir_format, frames |-> frames,
   bit_counter |-> bit_counter]

\* return FORMAT_UNKNOWN, []
Unknown(bit_counter) == Ended("pair", FORMAT_UNKNOWN, <<>>, bit_counter)

\* one iteration of a decode loop: the call ended, or the locals it leaves
Done(res) == [done |-> TRUE, res |-> res]
Cont(st) == [done |-> FALSE, st |-> st]

\* the locals of decode before the loops
DecodeLocals ==
  [frames |-> <<>>, byte_list |-> <<>>, byte |-> 0, bit_counter |-> 0,
   end_of_frame |-> FALSE]

\* TooShort without the test of len(code) < 10
TooShortByHalf(code) == Len(code) \div 2 = 0

\* codeが短いか偶数の場合はエラーとする: len(code) < 10 or len(code) // 2 == 0
TooShort(code) == Len(code) < MIN_DECODE \/ Len(code) \div 2 = 0

\* LeaderFormat that looks at the Mark code[0] only
LeaderFormatByMark(code) ==
  IF _cl(At(code, 0), _T_AEHA * 8) THEN FORMAT_AEHA
  ELSE IF _cl(At(code, 0), _T_NEC * 16) THEN FORMAT_NEC
  ELSE IF _cl(At(code, 0), _T_SONY * 4) THEN FORMAT_SONY
  ELSE FORMAT_UNKNOWN

\* LeaderTest on the Mark alone
LeaderTestByMark(f, mark, space) ==
  IF f = FORMAT_AEHA THEN _cl(mark, _T_AEHA * 8)
  ELSE IF f = FORMAT_NEC THEN _cl(mark, _T_NEC * 16)
  ELSE _cl(mark, _T_SONY * 4)
\* one of the three leader tests of decode
LeaderTest(f, mark, space) ==
  IF f = FORMAT_AEHA THEN _cl(mark, _T_AEHA * 8) /\ _cl(space, _T_AEHA * 4)
  ELSE IF f = FORMAT_NEC THEN _cl(mark, _T_NEC * 16) /\ _cl(space, _T_NEC * 8)
  ELSE _cl(mark, _T_SONY * 4) /\ _cl(space, _T_SONY)

\* Leader: the format chosen from code[0] and code[1]
LeaderFormat(code) ==
  IF _cl(At(code, 0), _T_AEHA * 8) /\ _cl(At(code, 1), _T_AEHA * 4)
    THEN FORMAT_AEHA
  ELSE IF _cl(At(code, 0), _T_NEC * 16) /\ _cl(At(code, 1), _T_NEC * 8)
    THEN FORMAT_NEC
  ELSE IF _cl(At(code, 0), _T_SONY * 4) /\ _cl(At(code, 1), _T_SONY)
    THEN FORMAT_SONY
  ELSE FORMAT_UNKNOWN

\* code[i + 1] > _T_WAIT * 0.5
LongSpace(space) == space * 2 > _T_WAIT

\* NextFrameStart that accepts the Leader only
NextFrameStartLeaderOnly(ir_format, mark, space) ==
  IF ir_format = FORMAT_AEHA
  THEN _cl(mark, _T_AEHA * 8) /\ _cl(space, _T_AEHA * 4)
  ELSE _cl(mark, _T_NEC * 16) /\ _cl(space, _T_NEC * 8)
\* the pair accepted after a completed AEHA / NEC frame: Leader or Repeat
NextFrameStart(ir_format, mark, space) ==
  IF ir_format = FORMAT_AEHA
  THEN \/ _cl(mark, _T_AEHA * 8) /\ _cl(space, _T_AEHA * 4)
       \/ _cl(mark, _T_AEHA * 8) /\ _cl(space, _T_AEHA * 8)
  ELSE \/ _cl(mark, _T_NEC * 16) /\ _cl(space, _T_NEC * 8)
       \/ _cl(mark, _T_NEC * 16) /\ _cl(space, _T_NEC * 4)

\* Data 0 / Data 1 of AEHA and NEC: the bit goes to position bit_counter of
\* byte; bit_counter counts modulo 8 and a full byte is appended to byte_list
ByteBit(st, bit) ==
  LET byte == st.byte + bit * Pow2(st.bit_counter)
      bit_counter == (st.bit_counter + 1) % 8
  IN  IF bit_counter = 0
      THEN [st EXCEPT !.bit_counter = 0, !.byte = 0,
                      !.byte_list = Append(st.byte_list, byte)]
      ELSE [st EXCEPT !.bit_counter = bit_counter, !.byte = byte]

\* Stopの後に長いSpaceがある場合: the frame is pushed, byte_list and byte are
\* reset (bit_counter is left as it is)
EndFrame(st) ==
  [st EXCEPT !.frames = Append(st.frames, st.byte_list),
             !.byte_list = <<>>, !.byte = 0, !.end_of_frame = TRUE]

\* Last index of AEHA / NEC: Stop of length t and a whole number of bytes
LastStopOk(mark, t, bit_counter) == _cl(mark, t) /\ bit_counter = 0

\* one iteration of the AEHA / NEC loop, at the even index i < len(code)
StepBytes(code, ir_format, i, st) ==
  LET t == BaseT(ir_format)
      last == (i = Len(code) - 1)
  IN  IF st.end_of_frame
      THEN IF last THEN Done(Unknown(st.bit_counter))
           ELSE IF NextFrameStart(ir_format, At(code, i), At(code, i + 1))
             THEN Cont([st EXCEPT !.end_of_frame = FALSE])
           ELSE Done(Unknown(st.bit_counter))
      ELSE IF last
             THEN IF LastStopOk(At(code, i), t, st.bit_counter)
                  THEN Done(Ended("pair", ir_format,
                                  Append(st.frames, st.byte_list), st.bit_counter))
                  ELSE Done(Unknown(st.bit_counter))
           ELSE IF _cl(At(code, i), t) /\ LongSpace(At(code, i + 1))
             THEN Cont(EndFrame(st))
           ELSE IF _cl(At(code, i), t) /\ _cl(At(code, i + 1), t)
             THEN Cont(ByteBit(st, 0))
           ELSE IF _cl(At(code, i), t) /\ _cl(At(code, i + 1), t * 3)
             THEN Cont(ByteBit(st, 1))
           ELSE Done(Unknown(st.bit_counter))

\* for i in range(2, len(code), 2); the loop running out ends the call
\* without a return statement
RECURSIVE RunBytes(_, _, _, _)
RunBytes(code, ir_format, i, st) ==
  IF i >= Len(code) THEN Ended("none", FORMAT_UNKNOWN, <<>>, st.bit_counter)
  ELSE LET s == StepBytes(code, ir_format, i, st)
       IN  IF s.done THEN s.res ELSE RunBytes(code, ir_format, i + 2, s.st)

\* SONY: byte & 0x7F and byte >> 7 appended to byte_list, the frame pushed
SonyFlush(st) ==
  Append(st.frames, st.byte_list \o <<st.byte % 128, st.byte \div 128>>)

\* Data 0 / Data 1 of SONY: bit_counter is not reduced
SonyBit(st, bit) ==
  [st EXCEPT !.byte = st.byte + bit * Pow2(st.bit_counter),
             !.bit_counter = st.bit_counter + 1]

\* SonyBitsOk with a lower limit in place of the three counts
SonyBitsOkFrom12(bit_counter) == bit_counter >= 12

\* 最後のbit: the bit counts a SONY code may end with
SonyBitsOk(bit_counter) == bit_counter \in {12, 15, 20}

\* after a data bit at index i: the last bit ends the call
SonyAfterBit(code, i, st) ==
  IF i = Len(code) - 2
  THEN IF SonyBitsOk(st.bit_counter)
       THEN Done(Ended("pair", FORMAT_SONY, SonyFlush(st), st.bit_counter))
       ELSE Done(Unknown(st.bit_counter))
  ELSE Cont(st)

\* one iteration of the SONY loop, at the odd index i < len(code). At
\* i = len(code) - 1 the read of code[i + 1] raises IndexError, unless the
\* conjunct before it is already false.
StepSony(code, i, st) ==
  LET t == _T_SONY
  IN  IF i + 1 >= Len(code)
      THEN IF LongSpace(At(code, i)) \/ _cl(At(code, i), t)
           THEN Done(Ended("raise", FORMAT_UNKNOWN, <<>>, st.bit_counter))
           ELSE Done(Unknown(st.bit_counter))
      ELSE IF /\ LongSpace(At(code, i))
              /\ _cl(At(code, i + 1), t * 4)
              /\ i <= Len(code) - 3
        THEN Cont([st EXCEPT !.frames = SonyFlush(st), !.byte_list = <<>>,
                             !.byte = 0, !.bit_counter = 0])
      ELSE IF _cl(At(code, i), t) /\ _cl(At(code, i + 1), t)
        THEN SonyAfterBit(code, i, SonyBit(st, 0))
      ELSE IF _cl(At(code, i), t) /\ _cl(At(code, i + 1), t * 2)
        THEN SonyAfterBit(code, i, SonyBit(st, 1))
      ELSE Done(Unknown(st.bit_counter))

\* for i in range(1, len(code), 2)
RECURSIVE RunSony(_, _, _)
RunSony(code, i, st) ==
  IF i >= Len(code) THEN Ended("none", FORMAT_UNKNOWN, <<>>, st.bit_counter)
  ELSE LET s == StepSony(code, i, st)
       IN  IF s.done THEN s.res ELSE RunSony(code, i + 2, s.st)

\* Infrared.decode, with the value of bit_counter where the call ends
DecodeRun(code) ==
  IF TooShort(code) THEN Unknown(0)
  ELSE LET ir_format == LeaderFormat(code)
       IN  IF ir_format = FORMAT_UNKNOWN THEN Unknown(0)
           ELSE IF ir_format = FORMAT_SONY THEN RunSony(code, 1, DecodeLocals)
           ELSE RunBytes(code, ir_format, 2, DecodeLocals)

\* Infrared.decode: what the caller sees
decode(code) ==
  LET r == DecodeRun(code)
  IN  [kind |-> r.kind, ir_format |-> r.ir_format, frames |-> r.frames]

\* ------------------------------------------------------------ state

VARIABLES
  module,       \* codec: "pkg" (cgir/infrared.py) or "script" (cgir.py)
  ir_format,    \* codec: the format argument of encode
  frames,       \* codec: the frames argument of encode
  enc,          \* codec: how the call of encode ended
  code,         \* codec: the timing code handed to decode
  res,          \* codec: how the call of decode ended
  bit_counter,  \* codec: decode's local bit_counter where the call ended
  phase,        \* codec: "input", "encoded", "given", "decoded"
  cut,          \* codec: elements cut from the end of code
  written,      \* codec: whether an element of code was overwritten
  pc,           \* capture: where the caller of record is
  timeout,      \* capture: the timeout argument of record
  i,            \* capture: the polling loop's counter
  pi,           \* capture: the pigpio connection: "none", "open", "stopped"
  watchdog,     \* capture: the watchdog period last set on gpio_rec
  _recording,   \* capture: self._recording; "unset" before the first record
  _code,        \* capture: self._code
  last_tick,    \* capture: self.last_tick
  result,       \* capture: what record returned
  cb_pc,        \* capture: where the callback thread is
  cb_raised,    \* capture: whether a callback ended in an exception
  ev,           \* capture: the event the callback runs for
  gaps,         \* capture: the gaps between the edges of the signal
  start,        \* capture: the tick of the first edge
  sent,         \* capture: edges delivered so far
  now,          \* capture: the tick of the last edge delivered
  wd_fired,     \* capture: whether the watchdog fired since the last edge
  gap_seen,     \* capture: whether the callback met a gap above _T_MAX_GAP
  edges,        \* capture: the ticks of the edges the callback took as edges
  call,         \* utilities: the call of _cl or _round, [fn, x, y]
  ret,          \* utilities: what the call returned
  codes,        \* store: self.codes
  file,         \* store: the file at codes_path
  last,         \* store: the last operation on the store and its return value
  calls,        \* script: calls of record so far
  leaked,       \* script: connections replaced without stop(), still open
  pending       \* script: open connections that have yet to deliver the edge

codecVars ==
  <<module, ir_format, frames, enc, code, res, bit_counter, phase, cut, written>>

captureVars ==
  <<pc, timeout, i, pi, watchdog, _recording, _code, last_tick, result, cb_pc,
    cb_raised, ev, gaps, start, sent, now, wd_fired, gap_seen, edges>>

utilVars == <<call, ret>>

storeVars == <<codes, file, last>>

sessVars == <<calls, leaked, pending>>

vars == <<codecVars, captureVars, utilVars, storeVars, sessVars>>

NotYet == [kind |-> "not called"]
NoEvent == [level |-> -1, tick |-> [hi |-> 0, lo |-> 0]]
ZeroTick == [hi |-> 0, lo |-> 0]

NoCall == [fn |-> "none", x |-> 0, y |-> 0]

\* no call of _cl or _round on its own
UtilIdle == call = NoCall /\ ret = NotYet

\* a Python dict: its items in insertion order, no key twice
Dict(items) == [kind |-> "dict", items |-> items]
\* a Python list (what json.load gives for a JSON array)
List(items) == [kind |-> "list", items |-> items]

\* a file: state "missing" (no such file), "unreadable" (no access) or
\* "text"; a text is a JSON object or array, doc, with its members in the
\* order written, entries, and complete unless the text breaks off
File(state, doc, entries, complete) ==
  [state |-> state, doc |-> doc, entries |-> entries, complete |-> complete]
MissingFile == File("missing", "object", <<>>, FALSE)
UnreadableFile == File("unreadable", "object", <<>>, FALSE)

NoOp == [op |-> "none", ret |-> FALSE, before |-> Dict(<<>>)]

\* __init__: self.codes = {}; no file yet, no operation yet
StoreIdle == codes = Dict(<<>>) /\ file = MissingFile /\ last = NoOp

\* no call of record, no connection left open
SessIdle == calls = 0 /\ leaked = 0 /\ pending = 0

\* a fresh Infrared object, record not called: __init__ sets none of
\* _recording, _code and last_tick, and no signal is on the receiver
CaptureIdle ==
  /\ pc = "idle"
  /\ timeout = 0
  /\ i = 0
  /\ pi = "none"
  /\ watchdog = 0
  /\ _recording = "unset"
  /\ _code = <<>>
  /\ last_tick = ZeroTick
  /\ result = NotYet
  /\ cb_pc = "idle"
  /\ cb_raised = FALSE
  /\ ev = NoEvent
  /\ gaps = <<>>
  /\ start = ZeroTick
  /\ sent = 0
  /\ now = ZeroTick
  /\ wd_fired = FALSE
  /\ gap_seen = FALSE
  /\ edges = <<>>

\* no call of encode or decode
CodecIdle ==
  /\ module = "pkg"
  /\ ir_format = FORMAT_UNKNOWN
  /\ frames = <<>>
  /\ enc = NotYet
  /\ code = <<>>
  /\ res = NotYet
  /\ bit_counter = 0
  /\ phase = "input"
  /\ cut = 0
  /\ written = FALSE

\* ------------------------------------------------------------ codec: inputs

Modules == {"pkg", "script"}
\* a format string that is none of the FORMAT_ constants
OtherFormat == "RC5"
Formats == Supported \cup {FORMAT_UNKNOWN}
GivenFormats == Formats \cup {OtherFormat}

SeqsUpTo(S, n) == UNION {[1..k -> S] : k \in 0..n}

\* AEHA / NEC frames: the empty frame, short frames over ByteVals, and one
\* long frame of 0xFF bytes
ByteFrames ==
  SeqsUpTo(ByteVals, MaxBytes) \cup {[k \in 1..LongLen |-> 255]}

\* SONY frames: the empty frame and [7 bit data, 13 bit data]
SonyFrames == {<<>>} \cup {<<low, high>> : low \in LowVals, high \in HighVals}

\* for an unsupported format the frames are an empty frame or one byte
UnknownFrames == {<<>>, <<18>>}

\* the AEHA / NEC frames that inputs of several frames are made of
MultiFrames == {<<>>, <<18>>, <<52>>, <<18, 52>>, [k \in 1..LongLen |-> 255]}

\* the frames arguments of a format: for AEHA and NEC every single frame of
\* ByteFrames and the sequences over MultiFrames
FramesOf(f) ==
  IF f = FORMAT_SONY THEN SeqsUpTo(SonyFrames, MaxFrames)
  ELSE IF f \notin Supported THEN SeqsUpTo(UnknownFrames, MaxFrames)
  ELSE {<<frame>> : frame \in ByteFrames} \cup SeqsUpTo(MultiFrames, MaxFrames)

InitCodec ==
  /\ module \in Modules
  /\ ir_format \in GivenFormats
  /\ frames \in FramesOf(ir_format)
  /\ enc = NotYet
  /\ code = <<>>
  /\ res = NotYet
  /\ bit_counter = 0
  /\ phase = "input"
  /\ cut = 0
  /\ written = FALSE
  /\ CaptureIdle
  /\ UtilIdle
  /\ StoreIdle
  /\ SessIdle

\* codes a caller hands to decode without encode: the leading elements of
\* the codes of one-byte, empty and SONY frames, up to a length just above
\* MIN_DECODE
ShortBase ==
  {FrameCode(FORMAT_AEHA, <<18>>), FrameCode(FORMAT_NEC, <<52>>),
   FrameCode(FORMAT_SONY, <<21, 0>>),
   FrameCode(FORMAT_AEHA, <<>>) \o <<_T_WAIT>> \o FrameCode(FORMAT_AEHA, <<>>)
     \o <<_T_WAIT>> \o FrameCode(FORMAT_AEHA, <<>>)}

ShortGiven ==
  {SubSeq(c, 1, n) : c \in ShortBase, n \in 0..(MIN_DECODE + 1)}

\* the code of two AEHA / NEC frames given by their data bits
TwoFrameCode(f, bits1, bits2) ==
  LET t == BaseT(f)
  IN  Leader(f, t) \o DataCode(f, t, bits1) \o StopCode(f, t)
        \o <<_T_WAIT>>
        \o Leader(f, t) \o DataCode(f, t, bits2) \o StopCode(f, t)

\* a first frame of four bits (half a byte), then a frame of one byte or of
\* one byte and a half
UnalignedGiven ==
  {TwoFrameCode(f, <<1, 1, 1, 1>>, bits2) :
     f \in {FORMAT_AEHA, FORMAT_NEC},
     bits2 \in {<<0, 1, 0, 0, 1, 0, 0, 0>>,
                <<0, 1, 0, 0, 1, 0, 0, 0, 1, 1, 0, 0>>}}

\* SONY codes of two frames: a first frame of three or of twelve data bits,
\* then the frame [21, 0]
SonyGiven ==
  {<<_T_SONY * 4>> \o DataCode(FORMAT_SONY, _T_SONY, bits1) \o <<_T_WAIT>>
     \o FrameCode(FORMAT_SONY, <<21, 0>>) :
     bits1 \in {<<1, 0, 1>>, <<1, 0, 1, 0, 1, 0, 0, 0, 0, 0, 0, 0>>}}

GivenCodes == ShortGiven \cup UnalignedGiven \cup SonyGiven

\* ------------------------------------------------------------ codec: actions

\* the code can go to decode: encode returned it, or the caller gave it
Decodable == (phase = "encoded" /\ ~enc.raised) \/ phase = "given"

\* a caller with a timing code of its own (a recorded or a loaded one)
Given ==
  /\ phase = "input"
  /\ module = "pkg"
  /\ ir_format = FORMAT_UNKNOWN
  /\ frames = <<>>
  /\ code' \in GivenCodes
  /\ phase' = "given"
  /\ UNCHANGED <<module, ir_format, frames, enc, res, bit_counter, cut, written>>
  /\ UNCHANGED <<captureVars, utilVars, storeVars, sessVars>>

\* the encode of the module at hand
ModuleEncode(m, f, fr) == IF m = "pkg" THEN encode(f, fr) ELSE cgir_encode(f, fr)

\* code = ir.encode(ir_format, frames)
Encode ==
  /\ phase = "input"
  /\ enc' = ModuleEncode(module, ir_format, frames)
  /\ code' = enc'.code
  /\ phase' = "encoded"
  /\ UNCHANGED <<module, ir_format, frames, res, bit_counter, cut, written>>
  /\ UNCHANGED <<captureVars, utilVars, storeVars, sessVars>>

\* a timing code that lost its last element on the way to decode
Truncate ==
  /\ phase = "encoded"
  /\ ~enc.raised
  /\ ~written
  /\ cut < MaxTrunc
  /\ Len(code) > 0
  /\ Len(code) + cut <= MaxMutLen
  /\ code' = SubSeq(code, 1, Len(code) - 1)
  /\ cut' = cut + 1
  /\ UNCHANGED <<module, ir_format, frames, enc, res, bit_counter, phase, written>>
  /\ UNCHANGED <<captureVars, utilVars, storeVars, sessVars>>

\* a timing code with one duration replaced on the way to decode
Overwrite ==
  /\ Decodable
  /\ ~written
  /\ cut = 0
  /\ Len(code) <= MaxMutLen
  /\ \E p \in 1..Len(code), v \in DurVals :
       /\ code[p] # v
       /\ code' = [code EXCEPT ![p] = v]
  /\ written' = TRUE
  /\ UNCHANGED <<module, ir_format, frames, enc, res, bit_counter, phase, cut>>
  /\ UNCHANGED <<captureVars, utilVars, storeVars, sessVars>>

\* ir_format, frames = ir.decode(code)
Decode ==
  /\ Decodable
  /\ res' = decode(code)
  /\ bit_counter' = DecodeRun(code).bit_counter
  /\ phase' = "decoded"
  /\ UNCHANGED <<module, ir_format, frames, enc, code, cut, written>>
  /\ UNCHANGED <<captureVars, utilVars, storeVars, sessVars>>

NextCodec == Encode \/ Given \/ Truncate \/ Overwrite \/ Decode

SpecCodec == InitCodec /\ [][NextCodec]_vars

\* ------------------------------------------------------------ codec: claims

\* frames that are structurally valid for a format: at least one frame;
\* AEHA / NEC frames are non-empty lists of bytes; SONY frames are
\* [low, high] with low in 0..127 and high in 0..8191
ValidFrames(f, fr) ==
  /\ Len(fr) >= 1
  /\ \A k \in 1..Len(fr) :
       IF f = FORMAT_SONY
       THEN /\ Len(fr[k]) = 2
            /\ fr[k][1] \in 0..127
            /\ fr[k][2] \in 0..8191
       ELSE /\ Len(fr[k]) >= 1
            /\ \A j \in 1..Len(fr[k]) : fr[k][j] \in 0..255

\* the code handed to decode is the one encode returned
Untouched == cut = 0 /\ ~written

\* decode returned (f, fr)
ReturnedPair(f, fr) == [kind |-> "pair", ir_format |-> f, frames |-> fr]

\* C1: for every supported format and every structurally valid frames
\* sequence, decode(encode(format, frames)) returns exactly (format, frames).
RoundTrip ==
  (/\ phase = "decoded"
   /\ Untouched
   /\ ir_format \in Supported
   /\ ValidFrames(ir_format, frames))
  => res = ReturnedPair(ir_format, frames)

\* C2: decode always returns a pair, which is a non-Unknown format with its
\* frames or exactly (Unknown, []): it never raises and never ends without
\* returning.
DecodeTotal ==
  phase = "decoded"
  => /\ res.kind = "pair"
     /\ res.ir_format \in Formats
     /\ res.ir_format = FORMAT_UNKNOWN => res.frames = <<>>

RECURSIVE SumSeq(_, _)
SumSeq(s, k) == IF k > Len(s) THEN 0 ELSE s[k] + SumSeq(s, k + 1)

\* the units of a frame on the wire, its leader, its data bits and its stop
\* mark: its duration over t
WireUnits(f, frame) == SumSeq(FrameCode(f, frame), 1) \div BaseT(f)

\* where encode puts the Space before frame k >= 2
RECURSIVE WaitPos(_, _, _)
WaitPos(f, fr, k) ==
  IF k <= 1 THEN 0
  ELSE WaitPos(f, fr, k - 1) + Len(FrameCode(f, fr[k - 1])) + 1

FramePeriod(f) == IF f = FORMAT_NEC THEN NEC_PERIOD ELSE SONY_PERIOD

\* C7: for NEC and SONY the Space before frame k >= 2 is
\* round_to(P - t * c, 100), c the unit count of frame k - 1 with its leader,
\* its data bits and its stop mark.
WaitCoversWholeFrame ==
  (/\ phase # "input"
   /\ ir_format \in {FORMAT_NEC, FORMAT_SONY}
   /\ ValidFrames(ir_format, frames))
  => /\ ~enc.raised
     /\ \A k \in 2..Len(frames) :
          /\ WaitPos(ir_format, frames, k) <= Len(enc.code)
          /\ enc.code[WaitPos(ir_format, frames, k)]
               = _round(FramePeriod(ir_format)
                          - BaseT(ir_format) * WireUnits(ir_format, frames[k - 1]),
                        100)

\* C8: encode of frames that contain a frame of length 0 returns an empty
\* code, for any supported format and any position of the frame.
EmptyFrameGivesEmptyCode ==
  (/\ phase # "input"
   /\ ir_format \in Supported
   /\ \E k \in 1..Len(frames) : Len(frames[k]) = 0)
  => ~enc.raised /\ enc.code = <<>>

\* decode took the code for SONY
SonyLed == ~TooShort(code) /\ LeaderFormat(code) = FORMAT_SONY

\* C9: SONY decode succeeds only with a trailing bit count of exactly 12, 15
\* or 20; a code that reaches its final pair with another count gives
\* (Unknown, []).
SonyTrailingBits ==
  (phase = "decoded" /\ SonyLed)
  => /\ res.ir_format = FORMAT_SONY
          => res.kind = "pair" /\ bit_counter \in {12, 15, 20}
     /\ (res.kind = "pair" /\ bit_counter \notin {12, 15, 20})
          => res = ReturnedPair(FORMAT_UNKNOWN, <<>>)

\* C9 witness: a two-frame SONY code decoded, its trailing frame of 15 bits
SonyTrailingBitsWitness ==
  /\ phase = "decoded"
  /\ SonyLed
  /\ res.kind = "pair"
  /\ res.ir_format = FORMAT_SONY
  /\ Len(res.frames) = 2
  /\ bit_counter = 15

\* the code the claim writes out for one NEC frame: leader (8960, 4480), for
\* every byte in order and every bit from the lowest a Mark of 560 and a
\* Space of 560 (bit 0) or 1680 (bit 1), then one Mark of 560
IsNecFrameCode(c, frame) ==
  LET n == Len(frame)
  IN  /\ Len(c) = 2 + 16 * n + 1
      /\ c[1] = 8960
      /\ c[2] = 4480
      /\ \A b \in 0..(n - 1) : \A j \in 0..7 :
           /\ c[3 + 2 * (8 * b + j)] = 560
           /\ c[4 + 2 * (8 * b + j)]
                = (IF (frame[b + 1] \div Pow2(j)) % 2 = 0 THEN 560 ELSE 1680)
      /\ c[Len(c)] = 560

\* C10: encoding NEC with a single frame of n bytes gives the leader pair,
\* 8n data pairs (each byte LSB first) and a trailing Mark of 560, and
\* decoding that sequence returns (NEC, [that frame]).
NecSingleFrame ==
  (/\ phase # "input"
   /\ ir_format = FORMAT_NEC
   /\ Len(frames) = 1
   /\ ValidFrames(ir_format, frames))
  => /\ ~enc.raised
     /\ IsNecFrameCode(enc.code, frames[1])
     /\ (phase = "decoded" /\ Untouched)
          => res = ReturnedPair(FORMAT_NEC, frames)

\* C10 witness: [[0x12, 0x34]] encoded and decoded
NecSingleFrameWitness ==
  /\ phase = "decoded"
  /\ Untouched
  /\ ir_format = FORMAT_NEC
  /\ frames = << <<18, 52>> >>
  /\ Len(enc.code) = 35
  /\ res = ReturnedPair(FORMAT_NEC, frames)

\* how many elements of a code equal v
CountOf(s, v) == Cardinality({k \in 1..Len(s) : s[k] = v})

\* C11: encoding AEHA with k >= 2 non-empty frames inserts exactly k - 1
\* Spaces of 10000, each directly after the previous frame's stop mark and
\* directly before the next frame's leader, and decoding the result recovers
\* the k frames in their order.
AehaWaits ==
  (/\ phase # "input"
   /\ ir_format = FORMAT_AEHA
   /\ Len(frames) >= 2
   /\ ValidFrames(ir_format, frames))
  => /\ ~enc.raised
     /\ CountOf(enc.code, 10000) = Len(frames) - 1
     /\ \A k \in 2..Len(frames) :
          LET p == WaitPos(ir_format, frames, k)
          IN  /\ p + 2 <= Len(enc.code)
              /\ enc.code[p] = 10000
              /\ enc.code[p - 1] = 425
              /\ p - 1 = WaitPos(ir_format, frames, k - 1)
                           + 2 + 16 * Len(frames[k - 1]) + 1
              /\ enc.code[p + 1] = 3400
              /\ enc.code[p + 2] = 1700
     /\ (phase = "decoded" /\ Untouched)
          => res = ReturnedPair(FORMAT_AEHA, frames)

\* C11 witness: two different AEHA frames encoded and decoded in their order
AehaWaitsWitness ==
  /\ phase = "decoded"
  /\ Untouched
  /\ ir_format = FORMAT_AEHA
  /\ frames = << <<18, 52>>, <<52>> >>
  /\ enc.code[36] = 10000
  /\ res = ReturnedPair(FORMAT_AEHA, frames)

\* C12: decode returns (Unknown, []) for every code with fewer than 10
\* elements, whatever its contents.
ShortCodeUnknown ==
  (phase = "decoded" /\ Len(code) < 10)
  => res = ReturnedPair(FORMAT_UNKNOWN, <<>>)

\* C12 witness: the seven elements of two empty AEHA frames, a code the
\* loop of decode would take for two frames, decoded to (Unknown, [])
ShortCodeUnknownWitness ==
  /\ phase = "decoded"
  /\ code = <<3400, 1700, 425, 10000, 3400, 1700, 425>>
  /\ res = ReturnedPair(FORMAT_UNKNOWN, <<>>)

\* strictly between 65 % and 135 % of target
Within35(x, target) == 100 * x > 65 * target /\ 100 * x < 135 * target

\* the leader shapes (8*425, 4*425), (16*560, 8*560), (4*600, 600)
LeaderShapes == {<<3400, 1700>>, <<8960, 4480>>, <<2400, 600>>}

\* the first pair of a code matches one of the leader shapes
MatchesLeaderShape(c) ==
  \E shape \in LeaderShapes : Within35(c[1], shape[1]) /\ Within35(c[2], shape[2])

\* C13: decode returns (Unknown, []) for every code of length >= 10 whose
\* first pair matches none of the leader shapes within tolerance 0.35.
BadLeaderUnknown ==
  (phase = "decoded" /\ Len(code) >= 10 /\ ~MatchesLeaderShape(code))
  => res = ReturnedPair(FORMAT_UNKNOWN, <<>>)

\* C13 witness: the code of an AEHA frame with its leader Space replaced by
\* the length of a data Space, decoded to (Unknown, [])
BadLeaderUnknownWitness ==
  /\ phase = "decoded"
  /\ Len(code) >= 10
  /\ written
  /\ code[1] = 3400
  /\ code[2] = 600
  /\ res = ReturnedPair(FORMAT_UNKNOWN, <<>>)

\* C16: encode with a format that is not AEHA, NEC or SONY ends in an error
\* outcome, an explicit error or an empty code, and never returns a
\* non-empty timing code, for any frames argument.
UnsupportedFormatFails ==
  (enc # NotYet /\ ir_format \notin Supported)
  => (enc.raised \/ enc.code = <<>>)

\* C16 witness: the packaged encode raised for Unknown with a one-byte frame
UnsupportedFormatFailsWitness ==
  /\ phase = "encoded"
  /\ module = "pkg"
  /\ ir_format = FORMAT_UNKNOWN
  /\ frames = << <<18>> >>
  /\ enc = Raised

\* the values of bit_counter the AEHA / NEC loop holds right after each
\* frame it ends at a long Space, in order: the bit position the next
\* frame's first data bit goes to
RECURSIVE FrameStarts(_, _, _, _, _)
FrameStarts(c, f, k, st, acc) ==
  IF k >= Len(c) THEN acc
  ELSE LET s == StepBytes(c, f, k, st)
       IN  IF s.done THEN acc
           ELSE FrameStarts(c, f, k + 2, s.st,
                            IF s.st.end_of_frame /\ ~st.end_of_frame
                            THEN Append(acc, s.st.bit_counter)
                            ELSE acc)

\* decode took the code for AEHA or NEC
BytesLed ==
  ~TooShort(code) /\ LeaderFormat(code) \in {FORMAT_AEHA, FORMAT_NEC}

\* C18: when a stop mark followed by a Space above 5000 ends a non-final
\* AEHA / NEC frame, decode resets all frame accumulators, the bit counter
\* among them, so the next frame's first data bit is placed at bit position
\* 0, also when the ended frame's bit count is not a multiple of 8.
FrameEndResetsBitCounter ==
  (phase = "decoded" /\ BytesLed)
  => LET starts == FrameStarts(code, LeaderFormat(code), 2, DecodeLocals, <<>>)
     IN  \A k \in 1..Len(starts) : starts[k] = 0

\* the index of the stop mark that ends the first frame of an AEHA / NEC
\* code: data pairs from index 2 on, then a mark of t and a Space above 5000
FirstFrameEnds(c, f) ==
  LET t == BaseT(f)
  IN  {e \in 2..(Len(c) - 2) :
         /\ e % 2 = 0
         /\ Within35(At(c, e), t)
         /\ At(c, e + 1) > 5000
         /\ \A j \in 2..(e - 2) :
              j % 2 = 0
              => /\ Within35(At(c, j), t)
                 /\ At(c, j + 1) <= 5000
                 /\ Within35(At(c, j + 1), t) \/ Within35(At(c, j + 1), 3 * t)}

\* the pair is the leader of the format: AEHA (8t, 4t), NEC (16t, 8t)
IsLeaderPair(f, mark, space) ==
  LET t == BaseT(f)
  IN  IF f = FORMAT_AEHA
      THEN Within35(mark, 8 * t) /\ Within35(space, 4 * t)
      ELSE Within35(mark, 16 * t) /\ Within35(space, 8 * t)

\* the pair is the repeat marker of the format: AEHA (8t, 8t), NEC (16t, 4t)
IsRepeatPair(f, mark, space) ==
  LET t == BaseT(f)
  IN  IF f = FORMAT_AEHA
      THEN Within35(mark, 8 * t) /\ Within35(space, 8 * t)
      ELSE Within35(mark, 16 * t) /\ Within35(space, 4 * t)

\* C24: in AEHA / NEC decode the pair that follows a completed frame is
\* accepted only if it is a leader or a repeat marker of the format, any
\* other pair giving (Unknown, []); a repeat marker followed directly by the
\* final stop mark yields an empty frame, so a data frame followed by one
\* repeat code decodes to [frame, []].
PairAfterFrame ==
  (phase = "decoded" /\ BytesLed)
  => LET f == LeaderFormat(code)
     IN  \A e \in FirstFrameEnds(code, f) :
           /\ (/\ e + 3 <= Len(code) - 1
               /\ ~IsLeaderPair(f, At(code, e + 2), At(code, e + 3))
               /\ ~IsRepeatPair(f, At(code, e + 2), At(code, e + 3)))
                => res = ReturnedPair(FORMAT_UNKNOWN, <<>>)
           /\ (/\ e + 4 = Len(code) - 1
               /\ IsRepeatPair(f, At(code, e + 2), At(code, e + 3))
               /\ Within35(At(code, e + 4), BaseT(f))
               /\ decode(SubSeq(code, 1, e + 1)) = ReturnedPair(f, decode(SubSeq(code, 1, e + 1)).frames))
                => /\ res.kind = "pair"
                   /\ res.ir_format = f
                   /\ res.frames = decode(SubSeq(code, 1, e + 1)).frames \o << <<>> >>

\* C24 witness: the frame [18], a repeat marker and the stop mark decoded to
\* [[18], []]
PairAfterFrameWitness ==
  /\ phase = "decoded"
  /\ BytesLed
  /\ \E e \in FirstFrameEnds(code, LeaderFormat(code)) :
       /\ e + 4 = Len(code) - 1
       /\ IsRepeatPair(LeaderFormat(code), At(code, e + 2), At(code, e + 3))
       /\ ~IsLeaderPair(LeaderFormat(code), At(code, e + 2), At(code, e + 3))
  /\ res.frames = << <<18>>, <<>> >>

\* C25: the codec of cgir.py and of cgir/infrared.py is the same: decode
\* returns the same outcome in both for every timing code (one text, one
\* definition here), and encode returns the same code in both for every
\* format and frames argument, an Unknown format and frames with an empty
\* frame among them.
CodecsAgree ==
  enc # NotYet => encode(ir_format, frames) = cgir_encode(ir_format, frames)

\* the index of the first element of frame k in the code of frames: the
\* frames before it and one wait after each
RECURSIVE FrameIndex(_, _, _)
FrameIndex(f, fr, k) ==
  IF k = 1 THEN 0
  ELSE FrameIndex(f, fr, k - 1) + Len(FrameCode(f, fr[k - 1])) + 1

\* the Marks of a format: the leader Mark and the Marks of the data and stop
\* bits
MarkVals(f) ==
  LET t == BaseT(f)
  IN  IF f = FORMAT_AEHA THEN {8 * t, t}
      ELSE IF f = FORMAT_NEC THEN {16 * t, t}
      ELSE {4 * t, t, 2 * t}

\* encode returned a code for a supported format and frames that are not
\* empty and hold no empty frame
EncodedFrames ==
  /\ enc # NotYet
  /\ ~enc.raised
  /\ ir_format \in Supported
  /\ frames # <<>>
  /\ \A k \in 1..Len(frames) : frames[k] # <<>>

\* C26: every code returned by encode for a supported format and non-empty
\* frames keeps the Mark / Space alternation across frames: it starts with a
\* Mark, every frame's leader Mark sits at an even index, every inter-frame
\* wait sits at an odd index, and the whole code has odd length ending in a
\* Mark.
AlternationKept ==
  EncodedFrames
  => LET c == enc.code
         lead == Leader(ir_format, BaseT(ir_format))[1]
     IN  /\ Len(c) % 2 = 1
         /\ At(c, 0) = lead
         /\ At(c, Len(c) - 1) \in MarkVals(ir_format) \ {lead}
         /\ \A j \in 0..(Len(c) - 1) :
              /\ j % 2 = 0 => At(c, j) \in MarkVals(ir_format)
              /\ At(c, j) = lead => j % 2 = 0
         /\ \A k \in 1..Len(frames) :
              LET at == FrameIndex(ir_format, frames, k)
              IN  /\ at % 2 = 0
                  /\ At(c, at) = lead
                  /\ k > 1 => (at - 1) % 2 = 1

\* C26 witness: a code of two SONY frames, the second leader Mark at an index
\* above 0
AlternationKeptWitness ==
  /\ EncodedFrames
  /\ ir_format = FORMAT_SONY
  /\ Len(frames) = 2
  /\ FrameIndex(ir_format, frames, 2) > 24
  /\ At(enc.code, FrameIndex(ir_format, frames, 2)) = 2400

\* the SONY frame boundaries of a code: the odd indices up to len - 3 with a
\* Space above 5000 followed by a Mark of 4t
SonyBoundaries(c) ==
  {b \in 1..(Len(c) - 3) :
     b % 2 = 1 /\ At(c, b) > 5000 /\ Within35(At(c, b + 1), 4 * _T_SONY)}

\* the pairs between boundary b and the boundary or the leader before it
BitsBefore(c, b) ==
  LET before == {p \in SonyBoundaries(c) : p < b}
      prev == IF before = {} THEN -1
              ELSE CHOOSE p \in before : \A q \in before : q <= p
  IN  (b - prev - 2) \div 2

\* C27: every frame in the result of a successful SONY decode, not only the
\* last, was assembled from exactly 12, 15 or 20 data bits: a non-final frame
\* that reaches a frame boundary with any other bit count makes decode
\* return (Unknown, []).
SonyFrameBits ==
  (phase = "decoded" /\ SonyLed /\ res = ReturnedPair(FORMAT_SONY, res.frames))
  => \A b \in SonyBoundaries(code) : BitsBefore(code, b) \in {12, 15, 20}

\* C28: every element of a code returned by encode for a supported format
\* and frames that are all non-empty is positive; every NEC and SONY
\* inter-frame wait is greater than 5000, the threshold decode uses to
\* recognise a frame boundary, for frames of any length.
WaitsPositive ==
  EncodedFrames
  => /\ \A j \in 1..Len(enc.code) : enc.code[j] > 0
     /\ ir_format \in {FORMAT_NEC, FORMAT_SONY}
          => \A k \in 2..Len(frames) :
               At(enc.code, FrameIndex(ir_format, frames, k) - 1) > 5000

\* ------------------------------------------------------------ utilities: calls

\* the targets decode hands to _cl
DecoderTargets ==
  {_T_AEHA * 8, _T_AEHA * 4, _T_AEHA, _T_AEHA * 3,
   _T_NEC * 16, _T_NEC * 8, _T_NEC * 4, _T_NEC, _T_NEC * 3,
   _T_SONY * 4, _T_SONY, _T_SONY * 2}

\* the units record and encode hand to _round, and three more
RoundUnits == {1, 3, 7, 10, 50, 100, 200}

\* a call of _cl(length, target) or of _round(n, m)
ClCall(length, target) == [fn |-> "_cl", x |-> length, y |-> target]
RoundCall(n, m) == [fn |-> "_round", x |-> n, y |-> m]

InitUtil ==
  /\ \/ \E length \in 0..MaxLength, target \in DecoderTargets :
          call = ClCall(length, target)
     \/ \E n \in 0..MaxN, m \in RoundUnits :
          call = RoundCall(n, m)
  /\ ret = NotYet
  /\ CodecIdle
  /\ CaptureIdle
  /\ StoreIdle
  /\ SessIdle

\* self._cl(length, target)
CallCl ==
  /\ call.fn = "_cl"
  /\ ret = NotYet
  /\ ret' = [kind |-> "returned", value |-> _cl(call.x, call.y)]
  /\ UNCHANGED <<call, codecVars, captureVars, storeVars, sessVars>>

\* self._round(n, m)
CallRound ==
  /\ call.fn = "_round"
  /\ ret = NotYet
  /\ ret' = [kind |-> "returned", value |-> _round(call.x, call.y)]
  /\ UNCHANGED <<call, codecVars, captureVars, storeVars, sessVars>>

NextUtil == CallCl \/ CallRound

SpecUtil == InitUtil /\ [][NextUtil]_vars

\* ------------------------------------------------------------ utilities: claims

\* the call of fn has returned
ReturnedFrom(fn) == call.fn = fn /\ ret # NotYet

\* C14: within_tolerance(length, target, 0.35) is true iff
\* target * 0.65 < length < target * 1.35 with both inequalities strict: false
\* at either limit, true at the target and strictly between the limits.
ToleranceStrict ==
  ReturnedFrom("_cl")
  => LET length == call.x
         target == call.y
     IN  /\ 100 * length = 65 * target => ret.value = FALSE
         /\ 100 * length = 135 * target => ret.value = FALSE
         /\ length = target => ret.value = TRUE
         /\ (65 * target < 100 * length /\ 100 * length < 135 * target)
              => ret.value = TRUE
         /\ (100 * length < 65 * target \/ 100 * length > 135 * target)
              => ret.value = FALSE

\* C14 witness: the lower limit of the AEHA leader Mark, 3400 * 0.65 = 2210,
\* is not within tolerance
ToleranceStrictWitness ==
  /\ ReturnedFrom("_cl")
  /\ call.x = 2210
  /\ call.y = 3400
  /\ ret.value = FALSE

\* the distance between two integers
Dist(a, b) == IF a >= b THEN a - b ELSE b - a

\* C15: round_to(n, m) is the multiple of m nearest to n for n >= 0 and
\* m > 0, an exact tie going to the larger multiple; it differs from n by at
\* most m / 2; round_to(1005, 10) = 1010 and round_to(1004, 10) = 1000.
RoundNearest ==
  ReturnedFrom("_round")
  => LET n == call.x
         m == call.y
         below == n - (n % m)
         above == below + m
     IN  /\ ret.value % m = 0
         /\ 2 * Dist(ret.value, n) <= m
         /\ Dist(ret.value, n) <= Dist(below, n)
         /\ Dist(ret.value, n) <= Dist(above, n)
         /\ Dist(below, n) = Dist(above, n) => ret.value = above
         /\ (n = 1005 /\ m = 10) => ret.value = 1010
         /\ (n = 1004 /\ m = 10) => ret.value = 1000

\* C15 witness: the tie 1005 rounded by 10 goes up to 1010
RoundNearestWitness ==
  /\ ReturnedFrom("_round")
  /\ call.x = 1005
  /\ call.y = 10
  /\ ret.value = 1010

\* ------------------------------------------------------------ store

\* the names and codes of the store's members
Names == {"tv", "ac"}
StoreCodes == {<<560>>, <<425, 1275>>}

Entry(name, c) == [name |-> name, code |-> c]
Entries == {Entry(name, c) : name \in Names, c \in StoreCodes}

\* the position of key name in a dict's items, 0 when it is absent
KeyPos(items, name) ==
  IF \E k \in 1..Len(items) : items[k].name = name
  THEN CHOOSE k \in 1..Len(items) : items[k].name = name
  ELSE 0

\* d[name] = c: the value of a present key is replaced where it stands, a new
\* key goes to the end
DictSet(items, name, c) ==
  LET k == KeyPos(items, name)
  IN  IF k = 0 THEN Append(items, Entry(name, c))
      ELSE [items EXCEPT ![k] = Entry(name, c)]

\* d.pop(name) of a present key
DictPop(items, name) ==
  LET k == KeyPos(items, name)
  IN  SubSeq(items, 1, k - 1) \o SubSeq(items, k + 1, Len(items))

\* the dict json.load builds from the members of a JSON object, in their
\* order: a name that comes again replaces the value
RECURSIVE ObjectItems(_, _, _)
ObjectItems(entries, k, items) ==
  IF k > Len(entries) THEN items
  ELSE ObjectItems(entries, k + 1,
                   DictSet(items, entries[k].name, entries[k].code))

\* with open(self.codes_path, 'r') as f: json.load(f). open raises OSError
\* for a missing or unreadable file, json.load raises JSONDecodeError for a
\* text that breaks off.
json_load(f) ==
  IF f.state # "text" \/ ~f.complete THEN [raised |-> TRUE, value |-> Dict(<<>>)]
  ELSE IF f.doc = "array" THEN [raised |-> FALSE, value |-> List(f.entries)]
  ELSE [raised |-> FALSE, value |-> Dict(ObjectItems(f.entries, 1, <<>>))]

\* json.dumps(self.codes, ...) written to the file
json_dumps(c) ==
  File("text", IF c.kind = "dict" THEN "object" ELSE "array", c.items, TRUE)

\* load_codes that keeps self.codes when the read fails
load_codesKeeping(c, f) ==
  LET r == json_load(f)
  IN  IF r.raised THEN [codes |-> c, ret |-> FALSE]
      ELSE [codes |-> r.value, ret |-> TRUE]

\* load_codes: self.codes and the return value
load_codes(c, f) ==
  LET r == json_load(f)
  IN  IF r.raised THEN [codes |-> Dict(<<>>), ret |-> FALSE]
      ELSE [codes |-> r.value, ret |-> TRUE]

\* the files the environment can leave at codes_path
Texts ==
  {File("text", "object", e, complete) :
     e \in SeqsUpTo(Entries, MaxEntries), complete \in BOOLEAN}
    \cup {File("text", "array", <<>>, TRUE)}
FileStates == {MissingFile, UnreadableFile} \cup Texts

InitStore ==
  /\ codes = Dict(<<>>)
  /\ file \in FileStates
  /\ last = NoOp
  /\ CodecIdle
  /\ CaptureIdle
  /\ UtilIdle
  /\ SessIdle

Op(op, r, before) == [op |-> op, ret |-> r, before |-> before]

\* ir.load_codes()
LoadCodes ==
  /\ codes' = load_codes(codes, file).codes
  /\ last' = Op("load", load_codes(codes, file).ret, codes)
  /\ UNCHANGED file
  /\ UNCHANGED <<codecVars, captureVars, utilVars, sessVars>>

\* ir.save_codes(): the file is written and True returned; or open fails and
\* False is returned; or the write breaks off in the emptied file
SaveCodes ==
  /\ \/ /\ file.state # "unreadable"
        /\ file' = json_dumps(codes)
        /\ last' = Op("save", TRUE, codes)
     \/ /\ file.state = "unreadable"
        /\ last' = Op("save", FALSE, codes)
        /\ UNCHANGED file
     \/ /\ file.state # "unreadable"
        /\ file' = File("text", "object", <<>>, FALSE)
        /\ last' = Op("save", FALSE, codes)
  /\ UNCHANGED codes
  /\ UNCHANGED <<codecVars, captureVars, utilVars, sessVars>>

\* ir.codes[cname] = code
SetCode ==
  /\ codes.kind = "dict"
  /\ \E name \in Names, c \in StoreCodes :
       codes' = Dict(DictSet(codes.items, name, c))
  /\ last' = Op("set", TRUE, codes)
  /\ UNCHANGED file
  /\ UNCHANGED <<codecVars, captureVars, utilVars, sessVars>>

\* if cname in ir.codes: ir.codes.pop(cname)
PopCode ==
  /\ codes.kind = "dict"
  /\ \E name \in Names :
       /\ KeyPos(codes.items, name) # 0
       /\ codes' = Dict(DictPop(codes.items, name))
  /\ last' = Op("pop", TRUE, codes)
  /\ UNCHANGED file
  /\ UNCHANGED <<codecVars, captureVars, utilVars, sessVars>>

\* the file is edited, removed or made unreadable outside the program
FileEdit ==
  /\ file' \in FileStates
  /\ file' # file
  /\ last' = Op("edit", TRUE, codes)
  /\ UNCHANGED codes
  /\ UNCHANGED <<codecVars, captureVars, utilVars, sessVars>>

NextStore == LoadCodes \/ SaveCodes \/ SetCode \/ PopCode \/ FileEdit

SpecStore == InitStore /\ [][NextStore]_vars

\* ------------------------------------------------------------ store: claims

\* the names of some members
NamesOf(items) == {items[k].name : k \in 1..Len(items)}

\* the mapping a sequence of members stands for: every name with the code
\* of its last member
MapOf(items) ==
  [name \in NamesOf(items) |->
     items[CHOOSE k \in 1..Len(items) :
             /\ items[k].name = name
             /\ \A j \in (k + 1)..Len(items) : items[j].name # name].code]

\* the file cannot be read or parsed
LoadFails == file.state # "text" \/ ~file.complete

\* C17: load never escalates a failure: on a read or parse failure it leaves
\* the store empty, whatever it held, and returns False; on success it
\* returns True and the store equals the persisted mapping.
LoadNeverEscalates ==
  last.op = "load"
  => /\ last.ret \in BOOLEAN
     /\ last.ret = ~LoadFails
     /\ LoadFails => codes = Dict(<<>>)
     /\ ~LoadFails
          => /\ codes.kind = (IF file.doc = "object" THEN "dict" ELSE "list")
             /\ MapOf(codes.items) = MapOf(file.entries)

\* C17 witness: a load that failed on a text that breaks off and emptied a
\* store of two members
LoadNeverEscalatesWitness ==
  /\ last.op = "load"
  /\ last.ret = FALSE
  /\ Len(last.before.items) = 2
  /\ file.state = "text"
  /\ ~file.complete
  /\ codes = Dict(<<>>)

\* ------------------------------------------------------------ capture

\* a tick later by d microseconds, d >= 0 (ticks wrap at 2^32)
TickAdd(tick, d) ==
  LET lo == tick.lo + d
  IN  [hi |-> (tick.hi + lo \div TICK_WORD) % TICK_WORD, lo |-> lo % TICK_WORD]

\* pigpio.tickDiff(t1, t2): t2 - t1, plus 2^32 when that is negative
tickDiff(t1, t2) ==
  LET hi == t2.hi - t1.hi
      lo == t2.lo - t1.lo
  IN  IF hi < 0 \/ (hi = 0 /\ lo < 0)
      THEN (hi + TICK_WORD) * TICK_WORD + lo
      ELSE hi * TICK_WORD + lo

\* Rounded to the nearest 200 throughout
RoundedBy200(length) == _round(length, 200)
\* 長さがばらつくので丸め処理
Rounded(length) ==
  IF length < 1000 THEN _round(length, 10)
  ELSE IF length < 2000 THEN _round(length, 50)
  ELSE _round(length, 200)

\* TimeoutCount one poll later
TimeoutCountLate(t) == t * POLLS_PER_S + 1
\* timeout_count = int(timeout) * 10
TimeoutCount(t) == t * POLLS_PER_S

\* RecResult with >= in place of >
RecResultAtLeast(c) == IF Len(c) >= MIN_CODE THEN REC_SUCCESS ELSE REC_SHORT
\* codeが短い場合は戻り値を変える
RecResult(c) == IF Len(c) > MIN_CODE THEN REC_SUCCESS ELSE REC_SHORT

RecReturn(r, c) == [kind |-> "returned", result |-> r, code |-> c]

\* the signals on the receiver: edges SteadyGap apart, or such edges with one
\* free gap among them
Steady(n) == [k \in 1..n |-> SteadyGap]
Leads == (0..MaxLead) \cup {MaxGaps - 1, MaxGaps}
Signals ==
  {Steady(n) : n \in 0..MaxGaps}
    \cup {Steady(a) \o <<g>> \o Steady(2) : a \in Leads, g \in GapVals}

\* the first edge's tick: early, shortly before the ticks wrap, exactly 0, and
\* one steady gap before 0
StartTicks ==
  {[hi |-> 0, lo |-> 1000], [hi |-> TICK_WORD - 1, lo |-> 65000], ZeroTick,
   [hi |-> TICK_WORD - 1, lo |-> TICK_WORD - SteadyGap]}

InitCapture ==
  /\ pc = "idle"
  /\ timeout \in 0..MaxTimeout
  /\ i = 0
  /\ pi = "none"
  /\ watchdog = 0
  /\ _recording = "unset"
  /\ _code = <<>>
  /\ last_tick = ZeroTick
  /\ result = NotYet
  /\ cb_pc = "idle"
  /\ cb_raised = FALSE
  /\ ev = NoEvent
  /\ gaps \in Signals
  /\ start \in StartTicks
  /\ sent = 0
  /\ now = ZeroTick
  /\ wd_fired = FALSE
  /\ gap_seen = FALSE
  /\ edges = <<>>
  /\ CodecIdle
  /\ UtilIdle
  /\ StoreIdle
  /\ SessIdle

envVars == <<gaps, start, sent, now, wd_fired>>
cbVars == <<cb_pc, cb_raised, ev, gap_seen, edges>>

\* record, up to the registration of the callback: the connection, the
\* reset of _code and last_tick, self._pi.callback(...)
RecordStart ==
  /\ pc = "idle"
  /\ \/ /\ pi' = "none"
        /\ result' = RecReturn(REC_ERR_PIGPIO, <<>>)
        /\ pc' = "ret_err"
        /\ UNCHANGED <<_code, last_tick>>
     \/ /\ pi' = "open"
        /\ _code' = <<>>
        /\ last_tick' = ZeroTick
        /\ pc' = "registered"
        /\ UNCHANGED result
  /\ UNCHANGED <<timeout, i, watchdog, _recording>>
  /\ UNCHANGED <<cbVars, envVars, codecVars, utilVars, storeVars, sessVars>>

\* self._recording = True; i = 0
SetRecording ==
  /\ pc = "registered"
  /\ _recording' = "True"
  /\ i' = 0
  /\ pc' = "loop"
  /\ UNCHANGED <<timeout, pi, watchdog, _code, last_tick, result>>
  /\ UNCHANGED <<cbVars, envVars, codecVars, utilVars, storeVars, sessVars>>

\* while self._recording:
LoopTest ==
  /\ pc = "loop"
  /\ pc' = IF _recording = "True" THEN "sleep" ELSE "teardown"
  /\ UNCHANGED <<timeout, i, pi, watchdog, _recording, _code, last_tick, result>>
  /\ UNCHANGED <<cbVars, envVars, codecVars, utilVars, storeVars, sessVars>>

\* time.sleep(0.1); i += 1; if i >= timeout_count:
Sleep ==
  /\ pc = "sleep"
  /\ i' = i + 1
  /\ pc' = IF i + 1 >= TimeoutCount(timeout) THEN "timeout" ELSE "loop"
  /\ UNCHANGED <<timeout, pi, watchdog, _recording, _code, last_tick, result>>
  /\ UNCHANGED <<cbVars, envVars, codecVars, utilVars, storeVars, sessVars>>

\* the timeout branch: self._recording = False
TimeoutClear ==
  /\ pc = "timeout"
  /\ _recording' = "False"
  /\ pc' = "timeout_teardown"
  /\ UNCHANGED <<timeout, i, pi, watchdog, _code, last_tick, result>>
  /\ UNCHANGED <<cbVars, envVars, codecVars, utilVars, storeVars, sessVars>>

\* the timeout branch: set_watchdog(0), set_glitch_filter(0), stop(),
\* return (REC_NO_DATA, [])
TimeoutReturn ==
  /\ pc = "timeout_teardown"
  /\ watchdog' = 0
  /\ pi' = "stopped"
  /\ result' = RecReturn(REC_NO_DATA, <<>>)
  /\ pc' = "ret_timeout"
  /\ UNCHANGED <<timeout, i, _recording, _code, last_tick>>
  /\ UNCHANGED <<cbVars, envVars, codecVars, utilVars, storeVars, sessVars>>

\* after the loop: set_watchdog(0), set_glitch_filter(0), stop()
Teardown ==
  /\ pc = "teardown"
  /\ watchdog' = 0
  /\ pi' = "stopped"
  /\ pc' = "result"
  /\ UNCHANGED <<timeout, i, _recording, _code, last_tick, result>>
  /\ UNCHANGED <<cbVars, envVars, codecVars, utilVars, storeVars, sessVars>>

\* return (result, self._code)
Return ==
  /\ pc = "result"
  /\ result' = RecReturn(RecResult(_code), _code)
  /\ pc' = "ret_done"
  /\ UNCHANGED <<timeout, i, pi, watchdog, _recording, _code, last_tick>>
  /\ UNCHANGED <<cbVars, envVars, codecVars, utilVars, storeVars, sessVars>>

recordVars == <<pc, timeout, i, pi, result>>

\* pigpio's one callback thread takes the next edge of the signal. An edge
\* more than the watchdog period after the last one comes after the
\* watchdog event, when the watchdog is set.
EdgeEvent ==
  /\ pi = "open"
  /\ cb_pc = "idle"
  /\ sent <= Len(gaps)
  /\ (sent >= 1 /\ gaps[sent] > WATCHDOG_US /\ watchdog = WATCHDOG_MS) => wd_fired
  /\ LET tick == IF sent = 0 THEN start ELSE TickAdd(now, gaps[sent])
     IN  /\ ev' = [level |-> sent % 2, tick |-> tick]
         /\ now' = tick
  /\ sent' = sent + 1
  /\ wd_fired' = FALSE
  /\ cb_pc' = "called"
  /\ UNCHANGED <<gaps, start, cb_raised, gap_seen, edges>>
  /\ UNCHANGED <<recordVars, watchdog, _recording, _code, last_tick, codecVars, utilVars, storeVars, sessVars>>

\* the callback thread takes a watchdog event: no edge for the watchdog
\* period
WatchdogEvent ==
  /\ pi = "open"
  /\ cb_pc = "idle"
  /\ watchdog = WATCHDOG_MS
  /\ sent >= 1
  /\ sent <= Len(gaps) => gaps[sent] > WATCHDOG_US
  /\ ev' = [level |-> TIMEOUT_LEVEL, tick |-> TickAdd(now, WATCHDOG_US)]
  /\ wd_fired' = TRUE
  /\ cb_pc' = "called"
  /\ UNCHANGED <<gaps, start, sent, now, cb_raised, gap_seen, edges>>
  /\ UNCHANGED <<recordVars, watchdog, _recording, _code, last_tick, codecVars, utilVars, storeVars, sessVars>>

\* _call_back: if not self._recording: return. On an object that never set
\* _recording the read raises AttributeError.
CallbackTest ==
  /\ cb_pc = "called"
  /\ cb_pc' = IF _recording = "True" THEN "passed" ELSE "idle"
  /\ cb_raised' = (cb_raised \/ _recording = "unset")
  /\ UNCHANGED <<ev, gap_seen, edges, envVars>>
  /\ UNCHANGED <<recordVars, watchdog, _recording, _code, last_tick, codecVars, utilVars, storeVars, sessVars>>

\* CallbackBody with a watchdog event that leaves the recording flag alone
CallbackBodyKeepsRecording ==
  /\ cb_pc = "passed"
  /\ cb_pc' = "idle"
  /\ edges' = IF ev.level \in {0, 1} THEN Append(edges, ev.tick) ELSE edges
  /\ IF ev.level \in {0, 1}
     THEN IF last_tick = ZeroTick
          THEN /\ watchdog' = WATCHDOG_MS
               /\ last_tick' = ev.tick
               /\ UNCHANGED <<_recording, _code, gap_seen>>
          ELSE IF tickDiff(last_tick, ev.tick) > _T_MAX_GAP
          THEN /\ _recording' = "False"
               /\ gap_seen' = TRUE
               /\ UNCHANGED <<watchdog, _code, last_tick>>
          ELSE /\ _code' = Append(_code, Rounded(tickDiff(last_tick, ev.tick)))
               /\ last_tick' = ev.tick
               /\ UNCHANGED <<watchdog, _recording, gap_seen>>
     ELSE UNCHANGED <<watchdog, _recording, _code, last_tick, gap_seen>>
  /\ UNCHANGED <<ev, cb_raised, envVars>>
  /\ UNCHANGED <<recordVars, codecVars, utilVars, storeVars, sessVars>>
\* _call_back after the test of _recording: an edge (level 0 or 1) sets the
\* watchdog when last_tick == 0, ends the recording on a gap above
\* _T_MAX_GAP and appends the rounded gap otherwise; a watchdog event ends the
\* recording
CallbackBody ==
  /\ cb_pc = "passed"
  /\ cb_pc' = "idle"
  /\ edges' = IF ev.level \in {0, 1} THEN Append(edges, ev.tick) ELSE edges
  /\ IF ev.level \in {0, 1}
     THEN IF last_tick = ZeroTick
          THEN /\ watchdog' = WATCHDOG_MS
               /\ last_tick' = ev.tick
               /\ UNCHANGED <<_recording, _code, gap_seen>>
          ELSE IF tickDiff(last_tick, ev.tick) > _T_MAX_GAP
          THEN /\ _recording' = "False"
               /\ gap_seen' = TRUE
               /\ UNCHANGED <<watchdog, _code, last_tick>>
          ELSE /\ _code' = Append(_code, Rounded(tickDiff(last_tick, ev.tick)))
               /\ last_tick' = ev.tick
               /\ UNCHANGED <<watchdog, _recording, gap_seen>>
     ELSE /\ _recording' = "False"
          /\ UNCHANGED <<watchdog, _code, last_tick, gap_seen>>
  /\ UNCHANGED <<ev, cb_raised, envVars>>
  /\ UNCHANGED <<recordVars, codecVars, utilVars, storeVars, sessVars>>

NextCapture ==
  \/ RecordStart
  \/ SetRecording
  \/ LoopTest
  \/ Sleep
  \/ TimeoutClear
  \/ TimeoutReturn
  \/ Teardown
  \/ Return
  \/ EdgeEvent
  \/ WatchdogEvent
  \/ CallbackTest
  \/ CallbackBody

SpecCapture == InitCapture /\ [][NextCapture]_vars

\* ------------------------------------------------------------ capture: claims

\* record has returned
Returns == {"ret_err", "ret_timeout", "ret_done"}

\* C3: record reports NoData only when the timeout elapses with no
\* completion signaled: the polling loop takes its timeout branch, which
\* returns (NoData, []), only while the recording flag is still set.
NoDataOnlyWithoutDone ==
  [][(pc = "sleep" /\ pc' = "timeout") => _recording = "True"]_vars

\* C4: the callback never appends to the code, updates last_tick or sets the
\* watchdog after record has cleared the flag and torn the source down, or
\* has read the code to return it.
CallbackSynchronized ==
  [][(pc \in {"ret_timeout", "ret_done"} /\ cb_pc = "passed" /\ cb_pc' = "idle")
       => (_code' = _code /\ last_tick' = last_tick /\ watchdog' = watchdog)]_vars

\* C5: once a gap above MAX_GAP is met, recording has stopped, that edge's
\* duration is not appended, no later event changes the code, and the code
\* record then returns is the code recorded before the gap.
GapEndsCapture ==
  [][/\ gap_seen' => (_recording' = "False" /\ _code' = _code)
     /\ (gap_seen /\ pc \notin Returns /\ pc' \in Returns)
          => result'.code = _code]_vars

\* C6: a capture that ends Done returns Success with the code iff the code
\* has more than 10 entries and Short otherwise; a capture that times out
\* returns NoData with an empty code.
ResultMapping ==
  /\ pc = "ret_done"
       => result = RecReturn(IF Len(_code) > 10 THEN REC_SUCCESS ELSE REC_SHORT,
                             _code)
  /\ pc = "ret_timeout" => result = RecReturn(REC_NO_DATA, <<>>)

\* C6 witness: a capture of exactly 11 durations returned as Success
ResultMappingWitness ==
  /\ pc = "ret_done"
  /\ Len(_code) = 11
  /\ result = RecReturn(REC_SUCCESS, _code)

\* all gaps between consecutive edges are at most MAX_GAP
GapsWithin(ticks) ==
  \A k \in 1..(Len(ticks) - 1) : tickDiff(ticks[k], ticks[k + 1]) <= 60000

\* C19: the first edge after start records no duration and every later edge
\* records exactly one: after n >= 1 edges with gaps of at most MAX_GAP (any
\* ticks, 0 and ticks after the wraparound among them) the code holds n - 1
\* entries, entry k the rounded modular difference of edges k + 1 and k.
EdgeDurations ==
  (Len(edges) >= 1 /\ GapsWithin(edges))
  => /\ Len(_code) = Len(edges) - 1
     /\ \A k \in 1..Len(_code) :
          _code[k] = Rounded(tickDiff(edges[k], edges[k + 1]))

\* C22: record always terminates: for every timeout >= 0 and every stream
\* of edges, the polling loop runs at most max(1, 10 * int(timeout)) times:
\* the count of polls never exceeds that number, and the loop is not entered
\* again once it is reached.
PollsBounded ==
  LET most == IF 10 * timeout > 1 THEN 10 * timeout ELSE 1
  IN  /\ i <= most
      /\ pc \in {"loop", "sleep"} => i < most

\* C22 witness: record returned on the last allowed poll of a one second
\* timeout while edges kept arriving
PollsBoundedWitness ==
  /\ pc = "ret_timeout"
  /\ timeout = 1
  /\ i = 10
  /\ Len(edges) >= 2

\* the unit the claim rounds a raw gap to
GapUnit(gap) == IF gap < 1000 THEN 10 ELSE IF gap < 2000 THEN 50 ELSE 200

\* C23: a gap of at most MAX_GAP is appended after adaptive rounding chosen
\* by the raw gap: to the nearest 10 below 1000, to the nearest 50 from 1000
\* to below 2000, to the nearest 200 otherwise; so every element of a
\* captured code is a multiple of 10 and at most MAX_GAP.
AdaptiveRounding ==
  [][/\ Len(_code') = Len(_code) + 1
          => LET gap == tickDiff(last_tick, ev.tick)
                 r == _code'[Len(_code')]
             IN  /\ gap <= 60000
                 /\ r % GapUnit(gap) = 0
                 /\ 2 * Dist(gap, r) <= GapUnit(gap)
     /\ \A k \in 1..Len(_code') :
          _code'[k] % 10 = 0 /\ _code'[k] <= 60000]_vars

\* C23 witness: a gap of 1980 appended as 2000 and one of 60000 as 60000
AdaptiveRoundingWitness ==
  /\ gaps \in {Steady(MaxLead) \o <<1980>> \o Steady(2),
               Steady(MaxLead) \o <<60000>> \o Steady(2)}
  /\ Len(_code) = MaxLead + 1
  /\ _code[MaxLead + 1] \in {2000, 60000}

\* C30: an edge event delivered after record has registered the callback
\* but before it has set the recording flag is ignored without error and
\* leaves the code and the last-edge timestamp unchanged, on the first record
\* call of a fresh object as well as on later calls.
EarlyEdgeIgnored ==
  [][(pc = "registered" /\ cb_pc = "called" /\ cb_pc' # "called")
       => /\ cb_pc' = "idle"
          /\ ~cb_raised'
          /\ _code' = _code
          /\ last_tick' = last_tick]_vars

\* ------------------------------------------------------------ script: record of cgir.py

\* the signals the script's record is given: edges SteadyGap apart
ScriptSignals == {Steady(n) : n \in 0..(MaxScriptEdges - 1)}

InitScript ==
  /\ pc = "idle"
  /\ timeout = 0
  /\ i = 0
  /\ pi = "none"
  /\ watchdog = 0
  /\ _recording = "unset"
  /\ _code = <<>>
  /\ last_tick = ZeroTick
  /\ result = NotYet
  /\ cb_pc = "idle"
  /\ cb_raised = FALSE
  /\ ev = NoEvent
  /\ gaps \in ScriptSignals
  /\ start = [hi |-> 0, lo |-> 1000]
  /\ sent = 0
  /\ now = ZeroTick
  /\ wd_fired = FALSE
  /\ gap_seen = FALSE
  /\ edges = <<>>
  /\ CodecIdle
  /\ UtilIdle
  /\ StoreIdle
  /\ SessIdle

\* record of cgir.py up to the registration of the callback, also on an
\* object whose record has returned: self._pi = pigpio.pi() replaces the
\* connection, and one that was not stopped stays open with its callback
ScriptRecordStart ==
  /\ pc \in {"idle", "ret_err", "ret_timeout", "ret_done"}
  /\ calls < MaxCalls
  /\ calls' = calls + 1
  /\ leaked' = leaked + (IF pi = "open" THEN 1 ELSE 0)
  /\ \/ /\ pi' = "none"
        /\ result' = RecReturn(REC_ERR_PIGPIO, <<>>)
        /\ pc' = "ret_err"
        /\ UNCHANGED <<_code, last_tick, edges>>
     \/ /\ pi' = "open"
        /\ _code' = <<>>
        /\ last_tick' = ZeroTick
        /\ edges' = <<>>
        /\ result' = NotYet
        /\ pc' = "registered"
  /\ UNCHANGED <<timeout, i, watchdog, _recording, pending>>
  /\ UNCHANGED <<cb_pc, cb_raised, ev, gap_seen, envVars>>
  /\ UNCHANGED <<codecVars, utilVars, storeVars>>

\* time.sleep(0.1); i += 1; if i >= 100: return (REC_NO_DATA, [])
ScriptSleep ==
  /\ pc = "sleep"
  /\ i' = i + 1
  /\ IF i + 1 >= SCRIPT_POLLS
     THEN /\ result' = RecReturn(REC_NO_DATA, <<>>)
          /\ pc' = "ret_timeout"
     ELSE /\ pc' = "loop"
          /\ UNCHANGED result
  /\ UNCHANGED <<timeout, pi, watchdog, _recording, _code, last_tick>>
  /\ UNCHANGED <<cbVars, envVars, codecVars, utilVars, storeVars, sessVars>>

\* the next edge of the signal, taken by the callback thread of one of the
\* open connections; the other open connections have yet to deliver it
ScriptEdgeEvent ==
  /\ pi = "open" \/ leaked > 0
  /\ cb_pc = "idle"
  /\ pending = 0
  /\ sent <= Len(gaps)
  /\ LET tick == IF sent = 0 THEN start ELSE TickAdd(now, gaps[sent])
     IN  /\ ev' = [level |-> sent % 2, tick |-> tick]
         /\ now' = tick
  /\ sent' = sent + 1
  /\ wd_fired' = FALSE
  /\ cb_pc' = "called"
  /\ pending' = leaked + (IF pi = "open" THEN 1 ELSE 0) - 1
  /\ UNCHANGED <<gaps, start, cb_raised, gap_seen, edges, calls, leaked>>
  /\ UNCHANGED <<recordVars, watchdog, _recording, _code, last_tick>>
  /\ UNCHANGED <<codecVars, utilVars, storeVars>>

\* the same edge, delivered by the callback of another open connection
ScriptEdgeAgain ==
  /\ cb_pc = "idle"
  /\ pending > 0
  /\ ev' = [level |-> (sent - 1) % 2, tick |-> now]
  /\ cb_pc' = "called"
  /\ pending' = pending - 1
  /\ UNCHANGED <<cb_raised, gap_seen, edges, envVars, calls, leaked>>
  /\ UNCHANGED <<recordVars, watchdog, _recording, _code, last_tick>>
  /\ UNCHANGED <<codecVars, utilVars, storeVars>>

NextScript ==
  \/ ScriptRecordStart
  \/ SetRecording
  \/ LoopTest
  \/ ScriptSleep
  \/ Teardown
  \/ Return
  \/ ScriptEdgeEvent
  \/ ScriptEdgeAgain
  \/ WatchdogEvent
  \/ CallbackTest
  \/ CallbackBody

SpecScript == InitScript /\ [][NextScript]_vars

\* ------------------------------------------------------------ script: claims

\* no tick comes twice among the edges the callback handled
EachEdgeOnce ==
  \A j \in 1..Len(edges) : \A k \in 1..Len(edges) :
    j # k => edges[j] # edges[k]

\* C20: every exit path of record after a successful connection, the timeout
\* path as well as the Done path, has torn the capture source down
\* (watchdog cleared, connection stopped), so that in a record that follows a
\* timed-out one each edge is delivered to the callback once and appends at
\* most one duration.
ExitTearsDown ==
  /\ pc \in {"ret_timeout", "ret_done"} => (pi = "stopped" /\ watchdog = 0)
  /\ EachEdgeOnce
  /\ Len(_code) <= sent

\* ------------------------------------------------------------ silence: record with a long timeout

\* the signals followed by silence: a few steady edges, or such edges with a
\* pause above the watchdog period among them
SilenceSignals ==
  {Steady(n) : n \in 0..(MaxLead + 1)}
    \cup {Steady(a) \o <<150000>> \o Steady(1) : a \in 0..MaxLead}

InitSilence ==
  /\ pc = "idle"
  /\ timeout = MaxPolls
  /\ i = 0
  /\ pi = "none"
  /\ watchdog = 0
  /\ _recording \in {"unset", "False"}
  /\ _code = <<>>
  /\ last_tick = ZeroTick
  /\ result = NotYet
  /\ cb_pc = "idle"
  /\ cb_raised = FALSE
  /\ ev = NoEvent
  /\ gaps \in SilenceSignals
  /\ start \in {[hi |-> 0, lo |-> 1000], ZeroTick}
  /\ sent = 0
  /\ now = ZeroTick
  /\ wd_fired = FALSE
  /\ gap_seen = FALSE
  /\ edges = <<>>
  /\ CodecIdle
  /\ UtilIdle
  /\ StoreIdle
  /\ SessIdle

\* time.sleep(0.1); i += 1; if i >= timeout_count: with a timeout_count that
\* no state of this specification reaches. Polls past MaxPolls are not
\* counted.
SleepOn ==
  /\ pc = "sleep"
  /\ i' = IF i < MaxPolls THEN i + 1 ELSE i
  /\ pc' = "loop"
  /\ UNCHANGED <<timeout, pi, watchdog, _recording, _code, last_tick, result>>
  /\ UNCHANGED <<cbVars, envVars, codecVars, utilVars, storeVars, sessVars>>

NextSilence ==
  \/ RecordStart
  \/ SetRecording
  \/ LoopTest
  \/ SleepOn
  \/ Teardown
  \/ Return
  \/ EdgeEvent
  \/ WatchdogEvent
  \/ CallbackTest
  \/ CallbackBody

\* the thread of record runs on, and pigpio's callback thread delivers the
\* watchdog event and runs the callback to its end; nothing makes the
\* sender send
SpecSilence ==
  /\ InitSilence
  /\ [][NextSilence]_vars
  /\ WF_vars(SetRecording)
  /\ WF_vars(LoopTest)
  /\ WF_vars(SleepOn)
  /\ WF_vars(Teardown)
  /\ WF_vars(Return)
  /\ WF_vars(WatchdogEvent)
  /\ WF_vars(CallbackTest)
  /\ WF_vars(CallbackBody)

\* ------------------------------------------------------------ silence: claims

\* the callback has handled an edge while recording and the sender sends no
\* more
Silence == edges # <<>> /\ sent > Len(gaps)

\* record has returned its code as Success or Short
ReturnedDone ==
  /\ pc = "ret_done"
  /\ result.result \in {REC_SUCCESS, REC_SHORT}
  /\ result.code = _code

\* C21: silence ends a capture: once the callback has handled an edge and no
\* further edge arrives, the watchdog event clears the recording flag and
\* record returns the code accumulated so far as Success or Short, when the
\* watchdog event, the callback and the polling loop are scheduled fairly and
\* the timeout does not elapse.
SilenceEndsCapture == Silence ~> ReturnedDone

\* C21 witness: record returned a code of two durations after the watchdog
\* event cleared the flag
SilenceEndsCaptureWitness ==
  /\ Silence
  /\ ReturnedDone
  /\ wd_fired
  /\ Len(_code) = 2

\* ------------------------------------------------------------ leader: the first pair of a code

\* the limits of the tolerance around a target, and the lengths next to them
Limits(target) ==
  {(65 * target) \div 100 + d : d \in -1..1}
    \cup {(135 * target) \div 100 + d : d \in -1..1}

\* the Marks and Spaces given to the leader tests: a grid, the targets and
\* the limits around them
LeaderMarks ==
  {m \in 0..MaxLength : m % 50 = 0}
    \cup UNION {Limits(shape[1]) : shape \in LeaderShapes}
LeaderSpaces ==
  {s \in 0..MaxSpace : s % 50 = 0}
    \cup UNION {Limits(shape[2]) : shape \in LeaderShapes}

LeaderCall(mark, space) == [fn |-> "leader", x |-> mark, y |-> space]

InitLeader ==
  /\ \E mark \in LeaderMarks, space \in LeaderSpaces :
       call = LeaderCall(mark, space)
  /\ ret = NotYet
  /\ CodecIdle
  /\ CaptureIdle
  /\ StoreIdle
  /\ SessIdle

\* the leader tests of decode on code[0], code[1]
CallLeader ==
  /\ call.fn = "leader"
  /\ ret = NotYet
  /\ ret' = [kind |-> "returned", value |-> LeaderFormat(<<call.x, call.y>>)]
  /\ UNCHANGED <<call, codecVars, captureVars, storeVars, sessVars>>

NextLeader == CallLeader

SpecLeader == InitLeader /\ [][NextLeader]_vars

\* ------------------------------------------------------------ leader: claims

\* the formats whose leader test the pair passes
LeaderMatches(mark, space) ==
  {f \in Supported : LeaderTest(f, mark, space)}

\* C29: leader detection is unambiguous: under the strict tolerance of 0.35
\* no pair (code[0], code[1]) matches the leader shape of more than one of
\* AEHA, NEC and SONY, so the format decode chooses is the one format that
\* matches, whatever the order of the three tests, and Unknown when none
\* does.
LeaderUnambiguous ==
  ReturnedFrom("leader")
  => LET ms == LeaderMatches(call.x, call.y)
     IN  /\ Cardinality(ms) <= 1
         /\ ms = {} => ret.value = FORMAT_UNKNOWN
         /\ \A f \in ms : ret.value = f

\* C29 witness: a Mark of 3000 is within the tolerance of the AEHA and of
\* the SONY leader Mark; with a Space of 800 the pair is a SONY leader
LeaderUnambiguousWitness ==
  /\ ReturnedFrom("leader")
  /\ call.x = 3000
  /\ call.y = 800
  /\ _cl(call.x, _T_AEHA * 8)
  /\ _cl(call.x, _T_SONY * 4)
  /\ ret.value = FORMAT_SONY

====
